---- MODULE Spec2Model ----
(***************************************************************************)
(* LineupOptimizer (app/optimization/optimizer.py): one CP-SAT model per   *)
(* optimizer object, built by build_model and grown by every iteration of  *)
(* the solve loop.                                                         *)
(* Simulator (app/optimization/simulator.py): one call of run_simulation.  *)
(* auto_optimize (app/api/endpoints/optimization.py): one request to the   *)
(* /auto endpoint, which runs a LineupOptimizer.                           *)
(*                                                                         *)
(* Numbers.  Salaries and counts are Python ints.  'points' is a Python    *)
(* float; it is held here as a whole number of thousandths (25.0 is 25000) *)
(* so that int(points * 100) is a truncating division by 10.  An exposure  *)
(* fraction is held as a whole number of hundredths (0.5 is 50), so that   *)
(* int(max_pct * num_lineups) is a truncating division by 100.            *)
(*                                                                         *)
(* Dicts.  A Python dict iterates in insertion order, so rules.positions,  *)
(* stacking_rules and exposure_limits are sequences of <<key, value>>      *)
(* pairs with distinct keys, and so is player_vars (<<id, variable>>).     *)
(* A CP-SAT Boolean variable is the index of its creation in the model.    *)
(***************************************************************************)
EXTENDS Integers, Sequences, FiniteSets, TLC

VARIABLES
    players,              \* self.players
    rules,                \* self.rules
    stacking_rules,       \* self.stacking_rules
    exposure_limits,      \* self.exposure_limits
    min_diversity,        \* self.min_diversity
    num_lineups,          \* the argument of solve
    model,                \* self.model: variables, constraints, objective
    player_vars,          \* self.player_vars
    generated_lineups,    \* solve: generated_lineups
    player_usage_counts,  \* solve: player_usage_counts
    i,                    \* solve: number of loop iterations run so far
    status,               \* solve: status of the last solver call
    pc,                   \* position in solve
    earlier_batches,      \* what the earlier solve calls with these inputs returned
    sim_players,          \* Simulator: self.players
    num_iterations,       \* Simulator: self.num_iterations
    player_map,           \* Simulator: self.player_map
    lineups,              \* run_simulation: the argument
    outcomes,             \* run_simulation: outcomes, one row per trial
    lineup_scores,        \* run_simulation: lineup_scores, one row per lineup
    results,              \* run_simulation: results
    sim_pc,               \* position in run_simulation
    projections,          \* auto_optimize: what generate_projections gave
    salary_cap,           \* auto_optimize: the query parameter
    response,             \* auto_optimize: the list it returns
    http_status,          \* auto_optimize: status of the HTTP response
    api_pc                \* position in auto_optimize

\* the Simulator object and one call of run_simulation
sim_vars == <<sim_players, num_iterations, player_map, lineups, outcomes,
              lineup_scores, results, sim_pc>>

\* the LineupOptimizer object and the calls of solve
opt_vars == <<players, rules, stacking_rules, exposure_limits, min_diversity,
              num_lineups, model, player_vars, generated_lineups,
              player_usage_counts, i, status, pc, earlier_batches>>

\* one request to the /auto endpoint
api_vars == <<projections, salary_cap, response, http_status, api_pc>>

vars == <<opt_vars, sim_vars, api_vars>>

inputs == <<players, rules, stacking_rules, exposure_limits, min_diversity,
            num_lineups>>

(***************************************************************************)
(* Bounds of the checked input space.                                      *)
(***************************************************************************)
MaxPlayers == 4
MaxLineups == 3
MaxDiversity == 2

(***************************************************************************)
(* Python helpers.                                                         *)
(***************************************************************************)
\* int(x / d) for the float x / d: truncation toward zero.
TruncDiv(x, d) == IF x >= 0 THEN x \div d ELSE -((-x) \div d)

Min(S) == CHOOSE x \in S : \A y \in S : x <= y
Max(S) == CHOOSE x \in S : \A y \in S : x >= y

RECURSIVE SortedSeq(_)
SortedSeq(S) == IF S = {} THEN <<>>
                ELSE <<Min(S)>> \o SortedSeq(S \ {Min(S)})

RECURSIVE Concat(_)
Concat(ss) == IF ss = <<>> THEN <<>> ELSE Head(ss) \o Concat(Tail(ss))

\* dict.get(key, 0) on a sequence of <<key, value>> pairs
Get0(d, key) ==
    IF \E k \in DOMAIN d : d[k][1] = key
    THEN d[CHOOSE k \in DOMAIN d : d[k][1] = key][2]
    ELSE 0

Keys(d) == {d[k][1] : k \in DOMAIN d}

(***************************************************************************)
(* CP-SAT.  A linear constraint is sum(coef * var) op rhs, enforced only   *)
(* when the literal enf is true (enf = 0: always enforced).  An assignment *)
(* is the set of variables that hold 1.                                    *)
(***************************************************************************)
RECURSIVE SumTerms(_, _)
SumTerms(terms, a) ==
    IF terms = <<>> THEN 0
    ELSE (IF Head(terms)[1] \in a THEN Head(terms)[2] ELSE 0)
         + SumTerms(Tail(terms), a)

Linear(terms, op, rhs, enf) == [terms |-> terms, op |-> op, rhs |-> rhs, enf |-> enf]

Satisfies(a, c) ==
    \/ c.enf # 0 /\ c.enf \notin a
    \/ LET v == SumTerms(c.terms, a) IN
       CASE c.op = "le" -> v <= c.rhs
         [] c.op = "ge" -> v >= c.rhs
         [] c.op = "eq" -> v = c.rhs

Assignments(m) == SUBSET (1 .. m.vars)

Feasible(m, a) == \A k \in DOMAIN m.constraints : Satisfies(a, m.constraints[k])

ObjectiveValue(m, a) == SumTerms(m.objective, a)

FeasibleSet(m) == {a \in Assignments(m) : Feasible(m, a)}

OptimalSet(m) ==
    LET feasible == FeasibleSet(m) IN
    {a \in feasible : \A b \in feasible : ObjectiveValue(m, b) <= ObjectiveValue(m, a)}

(***************************************************************************)
(* player_vars: a dict in insertion order, <<id, variable>> pairs.         *)
(***************************************************************************)
\* d[key] = val: a new key goes last, a known key keeps its place
DictSet(d, key, val) ==
    IF key \in Keys(d)
    THEN [k \in DOMAIN d |-> IF d[k][1] = key THEN <<key, val>> ELSE d[k]]
    ELSE Append(d, <<key, val>>)

\* d[key], for a key of d
Lookup(d, key) == d[CHOOSE k \in DOMAIN d : d[k][1] = key][2]

\* self.player_vars[p['id']]
VarOf(pv, p) == Lookup(pv, p.id)

\* build_model, step 1: one NewBoolVar per player record, stored under its id
RECURSIVE CreateVars(_, _, _)
CreateVars(pv, ps, base) ==
    IF ps = <<>> THEN pv
    ELSE CreateVars(DictSet(pv, Head(ps).id, base + 1), Tail(ps), base + 1)

\* list(self.player_vars.values())
AllVars(pv) == [k \in DOMAIN pv |-> pv[k][2]]

\* sum(var * w for var, w in zip(all_vars, weights)): zip stops at the shorter list
ZipTerms(all_vars, weights) ==
    [k \in 1 .. Min({Len(all_vars), Len(weights)}) |-> <<all_vars[k], weights[k]>>]

\* sum of the variables of the player records qs
UnitTerms(pv, qs) == [k \in DOMAIN qs |-> <<VarOf(pv, qs[k]), 1>>]

FlexEligible == {"RB", "WR", "TE"}

\* int(p['points'] * 100)
Projection(p) == TruncDiv(p.points, 10)

(***************************************************************************)
(* build_model, steps 2 to 4 and 6.                                        *)
(***************************************************************************)
\* faulty variant: the cap bounds the number of players, not their salaries
SalaryConstraint_NoWeights(pv, ps, rl) ==
    Linear([k \in DOMAIN pv |-> <<pv[k][2], 1>>], "le", rl.salary_cap, 0)

SalaryConstraint(pv, ps, rl) ==
    Linear(ZipTerms(AllVars(pv), [k \in DOMAIN ps |-> ps[k].salary]), "le", rl.salary_cap, 0)

\* faulty variant: at most roster_size players
RosterSizeConstraint_AtMost(pv, rl) ==
    Linear([k \in DOMAIN pv |-> <<pv[k][2], 1>>], "le", rl.roster_size, 0)

RosterSizeConstraint(pv, rl) ==
    Linear([k \in DOMAIN pv |-> <<pv[k][2], 1>>], "eq", rl.roster_size, 0)

\* faulty variant: a position requirement is an upper bound
PositionConstraint_AtMost(pv, ps, rl, pos, count) ==
    IF pos = "FLEX"
    THEN LET AtFlex(p) == p.position \in FlexEligible
             total_flex_pool_count == Get0(rl.positions, "RB") + Get0(rl.positions, "WR")
                                      + Get0(rl.positions, "TE") + count
         IN  Linear(UnitTerms(pv, SelectSeq(ps, AtFlex)), "eq", total_flex_pool_count, 0)
    ELSE LET AtPos(p) == p.position = pos
         IN  Linear(UnitTerms(pv, SelectSeq(ps, AtPos)), "le", count, 0)

\* faulty variant: the FLEX count is left out of the FLEX pool total
PositionConstraint_NoFlexCount(pv, ps, rl, pos, count) ==
    IF pos = "FLEX"
    THEN LET AtFlex(p) == p.position \in FlexEligible
             total_flex_pool_count == Get0(rl.positions, "RB") + Get0(rl.positions, "WR")
                                      + Get0(rl.positions, "TE")
         IN  Linear(UnitTerms(pv, SelectSeq(ps, AtFlex)), "eq", total_flex_pool_count, 0)
    ELSE LET AtPos(p) == p.position = pos
         IN  Linear(UnitTerms(pv, SelectSeq(ps, AtPos)), "ge", count, 0)

PositionConstraint(pv, ps, rl, pos, count) ==
    IF pos = "FLEX"
    THEN LET AtFlex(p) == p.position \in FlexEligible
             total_flex_pool_count == Get0(rl.positions, "RB") + Get0(rl.positions, "WR")
                                      + Get0(rl.positions, "TE") + count
         IN  Linear(UnitTerms(pv, SelectSeq(ps, AtFlex)), "eq", total_flex_pool_count, 0)
    ELSE LET AtPos(p) == p.position = pos
         IN  Linear(UnitTerms(pv, SelectSeq(ps, AtPos)), "ge", count, 0)

PositionConstraints(pv, ps, rl) ==
    [k \in DOMAIN rl.positions |->
        PositionConstraint(pv, ps, rl, rl.positions[k][1], rl.positions[k][2])]

\* faulty variant: the objective weighs the players by salary
ObjectiveTerms_Salary(pv, ps) ==
    ZipTerms(AllVars(pv), [k \in DOMAIN ps |-> ps[k].salary])

ObjectiveTerms(pv, ps) ==
    ZipTerms(AllVars(pv), [k \in DOMAIN ps |-> Projection(ps[k])])

(***************************************************************************)
(* add_stacking_constraints.                                               *)
(***************************************************************************)
Range(s) == {s[k] : k \in DOMAIN s}

\* the eligible partners of primary p: same team, partner position, other id
Partners(ps, p, partner_positions) ==
    LET IsPartner(t) == /\ t.team = p.team
                        /\ t.position \in Range(partner_positions)
                        /\ t.id # p.id
    IN  SelectSeq(ps, IsPartner)

\* faulty variant: the constraint is added for a primary without partners too
StackingConstraintOf_Always(pv, ps, p, partner_positions) ==
    <<Linear(UnitTerms(pv, Partners(ps, p, partner_positions)), "ge", 1, VarOf(pv, p))>>

\* if partners: Add(sum(partners) >= 1).OnlyEnforceIf(player_vars[p['id']])
StackingConstraintOf(pv, ps, p, partner_positions) ==
    LET partners == UnitTerms(pv, Partners(ps, p, partner_positions)) IN
    IF partners # <<>>
    THEN <<Linear(partners, "ge", 1, VarOf(pv, p))>>
    ELSE <<>>

add_stacking_constraints(pv, ps, st) ==
    Concat([r \in DOMAIN st |->
        LET IsPrimary(p) == p.position = st[r][1]
            primaries == SelectSeq(ps, IsPrimary)
        IN  Concat([k \in DOMAIN primaries |->
                StackingConstraintOf(pv, ps, primaries[k], st[r][2])])])

(***************************************************************************)
(* build_model: the variables, constraints and objective it adds to the    *)
(* model m, and the player_vars it leaves.                                 *)
(***************************************************************************)
build_model_vars(m, pv, ps) == CreateVars(pv, ps, m.vars)

build_model(m, pv, ps, rl, st) ==
    LET pv1 == build_model_vars(m, pv, ps) IN
    [vars |-> m.vars + Len(ps),
     constraints |-> m.constraints
                     \o <<SalaryConstraint(pv1, ps, rl), RosterSizeConstraint(pv1, rl)>>
                     \o PositionConstraints(pv1, ps, rl)
                     \o add_stacking_constraints(pv1, ps, st),
     objective |-> ObjectiveTerms(pv1, ps)]

\* cp_model.CpModel()
EmptyModel == [vars |-> 0, constraints |-> <<>>, objective |-> <<>>]

(***************************************************************************)
(* The solve loop.                                                         *)
(***************************************************************************)
\* int(max_pct * num_lineups)
AllowedCount(max_pct, n) == TruncDiv(max_pct * n, 100)

\* player_usage_counts.get(pid, 0)
UsageOf(usage, pid) == IF pid \in DOMAIN usage THEN usage[pid] ELSE 0

\* faulty variant: a player is banned only once its count is above the allowed count
BannedEntries_Above(el, usage, n) ==
    LET IsBanned(e) == UsageOf(usage, e[1]) > AllowedCount(e[2], n)
    IN  SelectSeq(el, IsBanned)

\* the exposure entries whose player is banned before this solver call
BannedEntries(el, usage, n) ==
    LET IsBanned(e) == UsageOf(usage, e[1]) >= AllowedCount(e[2], n)
    IN  SelectSeq(el, IsBanned)

\* self.player_vars[pid] raises KeyError for a banned id that is not in the pool
ExposureRaises(pv, el, usage, n) ==
    \E k \in DOMAIN BannedEntries(el, usage, n) :
        BannedEntries(el, usage, n)[k][1] \notin Keys(pv)

\* self.model.Add(self.player_vars[pid] == 0) for every banned entry
ExposureConstraints(pv, el, usage, n) ==
    LET banned == BannedEntries(el, usage, n) IN
    [k \in DOMAIN banned |-> Linear(<<<<Lookup(pv, banned[k][1]), 1>>>>, "eq", 0, 0)]

AddConstraints(m, cs) == [m EXCEPT !.constraints = @ \o cs]

\* the players whose variable holds 1, in pool order
LineupOf(pv, ps, a) ==
    LET IsSelected(p) == VarOf(pv, p) \in a
    IN  SelectSeq(ps, IsSelected)

\* faulty variant: only the exact lineup is excluded, whatever min_diversity is
DiversityConstraint_ExactOnly(pv, lineup, rl, d) ==
    Linear(UnitTerms(pv, lineup), "le", rl.roster_size - 1, 0)

\* faulty variant: without min_diversity the bound is roster_size - min_diversity too
DiversityConstraint_NoBasic(pv, lineup, rl, d) ==
    Linear(UnitTerms(pv, lineup), "le", rl.roster_size - d, 0)

\* sum(selected_vars) <= roster_size - min_diversity, or - 1 when min_diversity is 0
DiversityConstraint(pv, lineup, rl, d) ==
    IF d > 0
    THEN Linear(UnitTerms(pv, lineup), "le", rl.roster_size - d, 0)
    ELSE Linear(UnitTerms(pv, lineup), "le", rl.roster_size - 1, 0)

\* faulty variant: the counts are never incremented
CountUsage_Never(usage, lineup) == usage

\* faulty variant: the selected records are zeroed in place
PoolAfterSelection_Marked(ps, lineup) ==
    [k \in DOMAIN ps |->
        IF \E x \in DOMAIN lineup : lineup[x] = ps[k]
        THEN [ps[k] EXCEPT !.points = 0] ELSE ps[k]]

\* self.players after the loop over the pool of an accepted call: a selected
\* record is appended to the lineup as it is, and no record is assigned to
PoolAfterSelection(ps, lineup) == ps

\* player_usage_counts[p['id']] += 1 for every player of the lineup
CountUsage(usage, lineup) ==
    [pid \in DOMAIN usage |->
        usage[pid] + Cardinality({k \in DOMAIN lineup : lineup[k].id = pid})]

(***************************************************************************)
(* CpSolver.Solve: the statuses the solver may report on model m, and the  *)
(* assignment it then holds.  OPTIMAL comes with a feasible assignment of  *)
(* maximal objective (which one, among several, is the solver's choice),   *)
(* FEASIBLE with any feasible assignment, INFEASIBLE only when there is    *)
(* none; UNKNOWN is a search that was stopped.                             *)
(***************************************************************************)
Statuses == {"OPTIMAL", "FEASIBLE", "INFEASIBLE", "UNKNOWN"}

\* the assignments the solver may hold when it reports st on model m
\* (none: it cannot report st; for a status without a solution, the empty one)
SolverAnswers(m, st) ==
    CASE st = "OPTIMAL" -> OptimalSet(m)
      [] st = "FEASIBLE" -> FeasibleSet(m)
      [] st = "INFEASIBLE" -> IF FeasibleSet(m) = {} THEN {{}} ELSE {}
      [] st = "UNKNOWN" -> {{}}

\* faulty variant: only an OPTIMAL status is accepted
IsAccepted_OptimalOnly(st) == st = "OPTIMAL"

\* status == cp_model.OPTIMAL or status == cp_model.FEASIBLE
IsAccepted(st) == st = "OPTIMAL" \/ st = "FEASIBLE"

(***************************************************************************)
(* Inputs.                                                                 *)
(***************************************************************************)
Player(id, position, team, salary, points) ==
    [id |-> id, position |-> position, team |-> team, salary |-> salary, points |-> points]

\* The candidate players.  The third shares its id with the second; the
\* fifth is a quarterback with no team-mate; the sixth has a projection that
\* int(points * 100) truncates; the last is cheaper and better than the
\* second.
Catalogue ==
    << Player(1, "QB", "BUF", 8000, 25000),
       Player(2, "WR", "BUF", 7000, 20000),
       Player(2, "RB", "SF", 9000, 28000),
       Player(4, "RB", "BUF", 6000, 15000),
       Player(11, "QB", "KC", 7800, 24000),
       Player(25, "TE", "NE", 3000, 6129),
       Player(20, "WR", "MIA", 6500, 22000) >>

Pools ==
    {[k \in 1 .. Cardinality(S) |-> Catalogue[SortedSeq(S)[k]]] :
        S \in {T \in SUBSET DOMAIN Catalogue : Cardinality(T) \in 1 .. MaxPlayers}}

RuleSets ==
    { [salary_cap |-> 15000, roster_size |-> 2, positions |-> << <<"QB", 1>>, <<"WR", 1>> >>],
      [salary_cap |-> 16000, roster_size |-> 2, positions |-> << <<"QB", 1>> >>],
      [salary_cap |-> 50000, roster_size |-> 3,
       positions |-> << <<"QB", 1>>, <<"RB", 1>>, <<"FLEX", 1>> >>] }

StackingChoices == { <<>>, << <<"QB", <<"WR", "TE">> >> >> }

ExposureChoices == { <<>>, << <<1, 50>> >>, << <<2, 34>> >> }

UniqueIds(ps) == \A j, k \in DOMAIN ps : ps[j].id = ps[k].id => j = k

(***************************************************************************)
(* No Simulator has been constructed.                                      *)
(***************************************************************************)
NoEndpoint ==
    /\ projections = [raised |-> FALSE, rows |-> <<>>]
    /\ salary_cap = 0
    /\ response = <<>>
    /\ http_status = 0
    /\ api_pc = "none"

(***************************************************************************)
(* No Simulator has been constructed.                                      *)
(***************************************************************************)
NoSimulator ==
    /\ sim_players = <<>>
    /\ num_iterations = 0
    /\ player_map = <<>>
    /\ lineups = <<>>
    /\ outcomes = <<>>
    /\ lineup_scores = <<>>
    /\ results = <<>>
    /\ sim_pc = "none"

(***************************************************************************)
(* __init__                                                                *)
(***************************************************************************)
Init ==
    /\ NoEndpoint
    /\ NoSimulator
    /\ earlier_batches = <<>>
    /\ players \in Pools
    /\ rules \in RuleSets
    /\ stacking_rules \in StackingChoices
    /\ exposure_limits \in ExposureChoices
    /\ min_diversity \in 0 .. MaxDiversity
    /\ num_lineups \in 1 .. MaxLineups
    /\ model = EmptyModel
    /\ player_vars = <<>>
    /\ generated_lineups = <<>>
    /\ player_usage_counts = <<>>
    /\ i = 0
    /\ status = "NONE"
    /\ pc = "new"

(***************************************************************************)
(* solve, up to the loop: build_model, generated_lineups = [],             *)
(* player_usage_counts = {id: 0}.                                          *)
(***************************************************************************)
SolveStart ==
    /\ pc = "new"
    /\ "salary_cap" \in DOMAIN rules
    /\ model' = build_model(model, player_vars, players, rules, stacking_rules)
    /\ player_vars' = build_model_vars(model, player_vars, players)
    /\ generated_lineups' = <<>>
    /\ player_usage_counts' = [pid \in {players[k].id : k \in DOMAIN players} |-> 0]
    /\ i' = 0
    /\ pc' = "loop"
    /\ UNCHANGED <<api_vars, sim_vars, earlier_batches, inputs, status>>

\* the model the solver is called on in this iteration
ModelToSolve ==
    AddConstraints(model,
        ExposureConstraints(player_vars, exposure_limits, player_usage_counts, num_lineups))

\* one iteration in which the exposure step raises KeyError: solve raises
IterationRaises ==
    /\ pc = "loop" /\ i < num_lineups
    /\ ExposureRaises(player_vars, exposure_limits, player_usage_counts, num_lineups)
    /\ pc' = "raised"
    /\ UNCHANGED <<api_vars, sim_vars, earlier_batches, inputs, model, player_vars, generated_lineups, player_usage_counts,
                   i, status>>

\* one iteration whose solver call is accepted: the lineup is appended
IterationAccepts ==
    /\ pc = "loop" /\ i < num_lineups
    /\ ~ExposureRaises(player_vars, exposure_limits, player_usage_counts, num_lineups)
    /\ \E st \in Statuses : \E a \in SolverAnswers(ModelToSolve, st) :
        /\ IsAccepted(st)
        /\ LET lineup == LineupOf(player_vars, players, a) IN
            /\ generated_lineups' = Append(generated_lineups, lineup)
            /\ player_usage_counts' = CountUsage(player_usage_counts, lineup)
            /\ model' = AddConstraints(ModelToSolve,
                            <<DiversityConstraint(player_vars, lineup, rules, min_diversity)>>)
            /\ players' = PoolAfterSelection(players, lineup)
        /\ status' = st
    /\ i' = i + 1
    /\ UNCHANGED <<api_vars, sim_vars, earlier_batches, rules, stacking_rules, exposure_limits,
                   min_diversity, num_lineups, player_vars, pc>>

\* one iteration whose solver call is not accepted: break, return
IterationStops ==
    /\ pc = "loop" /\ i < num_lineups
    /\ ~ExposureRaises(player_vars, exposure_limits, player_usage_counts, num_lineups)
    /\ \E st \in Statuses : \E a \in SolverAnswers(ModelToSolve, st) :
        /\ ~IsAccepted(st)
        /\ status' = st
    /\ model' = ModelToSolve
    /\ i' = i + 1
    /\ pc' = "returned"
    /\ UNCHANGED <<api_vars, sim_vars, earlier_batches, inputs, player_vars, generated_lineups, player_usage_counts>>

\* the loop ran num_lineups times: return generated_lineups
SolveReturns ==
    /\ pc = "loop" /\ i = num_lineups
    /\ pc' = "returned"
    /\ UNCHANGED <<api_vars, sim_vars, earlier_batches, inputs, model, player_vars, generated_lineups, player_usage_counts,
                   i, status>>

Next ==
    \/ SolveStart
    \/ IterationRaises
    \/ IterationAccepts
    \/ IterationStops
    \/ SolveReturns

Spec == Init /\ [][Next]_vars

(***************************************************************************)
(* What solve returns, and measures of a lineup.                           *)
(***************************************************************************)
\* the lineups solve has returned; a call that raised returns none
ReturnedLineups == IF pc = "returned" THEN generated_lineups ELSE <<>>

RECURSIVE SumSeq(_)
SumSeq(ns) == IF ns = <<>> THEN 0 ELSE Head(ns) + SumSeq(Tail(ns))

TotalSalary(lineup) == SumSeq([k \in DOMAIN lineup |-> lineup[k].salary])

CountAt(lineup, positions) ==
    Cardinality({k \in DOMAIN lineup : lineup[k].position \in positions})

\* some choice of roster_size players of the pool costs more than the cap
CapBinds ==
    \E S \in SUBSET DOMAIN players :
        /\ Cardinality(S) = rules.roster_size
        /\ SumSeq([k \in 1 .. Cardinality(S) |-> players[SortedSeq(S)[k]].salary])
               > rules.salary_cap

(***************************************************************************)
(* C1 as stated: every lineup solve returns, for any pool, costs at most   *)
(* rules.salary_cap.                                                       *)
(***************************************************************************)
C1_SalaryAnyPool ==
    \A k \in DOMAIN ReturnedLineups : TotalSalary(ReturnedLineups[k]) <= rules.salary_cap

(***************************************************************************)
(* C1 amended: for a pool with unique player ids, every lineup solve       *)
(* returns costs at most rules.salary_cap.                                 *)
(***************************************************************************)
C1_SalaryUniqueIds ==
    UniqueIds(players) =>
        \A k \in DOMAIN ReturnedLineups : TotalSalary(ReturnedLineups[k]) <= rules.salary_cap

C1_Witness ==
    /\ UniqueIds(players)
    /\ CapBinds
    /\ Len(ReturnedLineups) >= 2

(***************************************************************************)
(* C2: for a pool with unique player ids, every lineup solve returns has   *)
(* exactly rules.roster_size players, and no player twice.                 *)
(***************************************************************************)
C2_SizeAndDistinct ==
    UniqueIds(players) =>
        \A k \in DOMAIN ReturnedLineups :
            LET lineup == ReturnedLineups[k] IN
            /\ Len(lineup) = rules.roster_size
            /\ \A x, y \in DOMAIN lineup : lineup[x].id = lineup[y].id => x = y

C2_Witness ==
    /\ UniqueIds(players)
    /\ Len(players) > rules.roster_size
    /\ Len(ReturnedLineups) >= 2

(***************************************************************************)
(* C3: in every lineup solve returns, every position of rules.positions    *)
(* other than FLEX, with requirement c, has at least c players.            *)
(***************************************************************************)
C3_PositionMinimum ==
    \A k \in DOMAIN ReturnedLineups :
        \A r \in DOMAIN rules.positions :
            rules.positions[r][1] # "FLEX" =>
                CountAt(ReturnedLineups[k], {rules.positions[r][1]}) >= rules.positions[r][2]

C3_Witness ==
    /\ Len(ReturnedLineups) >= 1
    /\ \E r \in DOMAIN rules.positions : rules.positions[r] = <<"RB", 1>>
    /\ CountAt(players, {"RB"}) = 1
    /\ CountAt(players, {"QB"}) = 2

(***************************************************************************)
(* C4: when rules.positions has FLEX, every lineup solve returns has       *)
(* exactly RB + WR + TE + FLEX required players (a missing requirement     *)
(* counts 0) at the positions RB, WR, TE.                                  *)
(***************************************************************************)
C4_FlexPoolTotal ==
    "FLEX" \in Keys(rules.positions) =>
        \A k \in DOMAIN ReturnedLineups :
            CountAt(ReturnedLineups[k], {"RB", "WR", "TE"})
                = Get0(rules.positions, "RB") + Get0(rules.positions, "WR")
                  + Get0(rules.positions, "TE") + Get0(rules.positions, "FLEX")

C4_Witness ==
    /\ "FLEX" \in Keys(rules.positions)
    /\ Len(ReturnedLineups) >= 1
    /\ CountAt(players, {"QB"}) = 2
    /\ CountAt(ReturnedLineups[1], {"RB"}) = 1
    /\ CountAt(ReturnedLineups[1], {"WR", "TE"}) = 1

(***************************************************************************)
(* C5: with a stacking rule {primary: partners}, in every lineup solve     *)
(* returns every player at the primary position has another player of the  *)
(* lineup, of the same team and at a partner position; for every pool,     *)
(* also one where a primary player has no such team-mate.                  *)
(***************************************************************************)
HasPartnerIn(lineup, x, partner_positions) ==
    \E y \in DOMAIN lineup :
        /\ y # x
        /\ lineup[y].team = lineup[x].team
        /\ lineup[y].position \in Range(partner_positions)

C5_StackingEveryPool ==
    \A k \in DOMAIN ReturnedLineups :
        \A r \in DOMAIN stacking_rules :
            \A x \in DOMAIN ReturnedLineups[k] :
                ReturnedLineups[k][x].position = stacking_rules[r][1] =>
                    HasPartnerIn(ReturnedLineups[k], x, stacking_rules[r][2])

(***************************************************************************)
(* C6: for every player id with exposure limit f, at most                  *)
(* floor(f * num_lineups) of the lineups solve returns contain that        *)
(* player, also when fewer than num_lineups lineups are returned.          *)
(***************************************************************************)
Occurrences(batch, pid) ==
    Cardinality({k \in DOMAIN batch : \E x \in DOMAIN batch[k] : batch[k][x].id = pid})

C6_ExposureCap ==
    \A e \in DOMAIN exposure_limits :
        Occurrences(ReturnedLineups, exposure_limits[e][1])
            <= (exposure_limits[e][2] * num_lineups) \div 100

\* the batch ended early, after the limited player reached its allowed count
C6_Witness ==
    /\ Len(ReturnedLineups) < num_lineups
    /\ Len(ReturnedLineups) >= 2
    /\ \E e \in DOMAIN exposure_limits :
        /\ (exposure_limits[e][2] * num_lineups) \div 100 >= 1
        /\ Occurrences(ReturnedLineups, exposure_limits[e][1])
               = (exposure_limits[e][2] * num_lineups) \div 100

(***************************************************************************)
(* C7: with min_diversity = d >= 1, any two lineups of one returned batch  *)
(* (consecutive or not) share at most roster_size - d players.             *)
(***************************************************************************)
Shared(l1, l2) == Cardinality(Range(l1) \cap Range(l2))

C7_DiversityAllPairs ==
    min_diversity >= 1 =>
        \A j, k \in DOMAIN ReturnedLineups :
            j < k => Shared(ReturnedLineups[j], ReturnedLineups[k])
                         <= rules.roster_size - min_diversity

\* three lineups; the first and the third share as many players as allowed
C7_Witness ==
    /\ min_diversity >= 1
    /\ Len(ReturnedLineups) = 3
    /\ Shared(ReturnedLineups[1], ReturnedLineups[3]) = rules.roster_size - min_diversity
    /\ Shared(ReturnedLineups[1], ReturnedLineups[3]) >= 1

(***************************************************************************)
(* C8: with min_diversity = 0, no two lineups of one returned batch are    *)
(* the same set of players; two lineups that differ in a single player may *)
(* both be returned (C8_Witness is such a batch).                          *)
(***************************************************************************)
C8_NoRepeat ==
    min_diversity = 0 =>
        \A j, k \in DOMAIN ReturnedLineups :
            j < k => Range(ReturnedLineups[j]) # Range(ReturnedLineups[k])

C8_Witness ==
    /\ min_diversity = 0
    /\ UniqueIds(players)
    /\ \E j, k \in DOMAIN ReturnedLineups :
        /\ j < k
        /\ Shared(ReturnedLineups[j], ReturnedLineups[k]) = rules.roster_size - 1

(***************************************************************************)
(* C9: an iteration of the solve loop appends a lineup exactly when the    *)
(* solver status is OPTIMAL or FEASIBLE; at the first other status the     *)
(* loop stops and solve returns the lineups of the earlier iterations, at  *)
(* most num_lineups of them, and nothing runs after the return.            *)
(***************************************************************************)
C9_Step ==
    /\ (pc = "loop" /\ i' = i + 1) =>
          /\ status' \in {"OPTIMAL", "FEASIBLE"}
                <=> Len(generated_lineups') = Len(generated_lineups) + 1
          /\ status' \notin {"OPTIMAL", "FEASIBLE"}
                => pc' = "returned" /\ generated_lineups' = generated_lineups
    /\ ~(pc = "loop" /\ i' = i + 1) => Len(generated_lineups') = Len(generated_lineups)
    /\ SubSeq(generated_lineups', 1, Len(generated_lineups)) = generated_lineups
    /\ Len(generated_lineups') <= num_lineups
    /\ pc # "returned"

C9_LoopStopsAtFirstFailure == [][C9_Step]_vars

\* solve returned a proper, non-empty prefix after a status that is not accepted
C9_Witness ==
    /\ pc = "returned"
    /\ status \in {"INFEASIBLE", "UNKNOWN"}
    /\ Len(generated_lineups) >= 1
    /\ i = Len(generated_lineups) + 1
    /\ i < num_lineups

(***************************************************************************)
(* C10.  A selection is a set of pool players; it meets the rules when it  *)
(* satisfies the salary cap, the roster size, the position minimums, the   *)
(* FLEX total and the stacking constraints, read off the player records.   *)
(***************************************************************************)
Selections ==
    {[k \in 1 .. Cardinality(S) |-> players[SortedSeq(S)[k]]] : S \in SUBSET DOMAIN players}

\* the stacking constraints build_model adds: a primary with a partner in the pool
Stacked(sel) ==
    \A r \in DOMAIN stacking_rules :
        \A x \in DOMAIN sel :
            (/\ sel[x].position = stacking_rules[r][1]
             /\ \E y \in DOMAIN players :
                   /\ players[y].team = sel[x].team
                   /\ players[y].position \in Range(stacking_rules[r][2])
                   /\ players[y].id # sel[x].id)
            => HasPartnerIn(sel, x, stacking_rules[r][2])

MeetsRules(sel) ==
    /\ TotalSalary(sel) <= rules.salary_cap
    /\ Len(sel) = rules.roster_size
    /\ \A r \in DOMAIN rules.positions :
          rules.positions[r][1] # "FLEX" =>
              CountAt(sel, {rules.positions[r][1]}) >= rules.positions[r][2]
    /\ "FLEX" \in Keys(rules.positions) =>
          CountAt(sel, {"RB", "WR", "TE"})
              = Get0(rules.positions, "RB") + Get0(rules.positions, "WR")
                + Get0(rules.positions, "TE") + Get0(rules.positions, "FLEX")
    /\ Stacked(sel)

\* points * 100, truncated, summed over the selection
ScaledTotal(sel) ==
    SumSeq([k \in DOMAIN sel |->
        IF sel[k].points >= 0 THEN sel[k].points \div 10 ELSE -((-sel[k].points) \div 10)])

\* no player of the selection has an exposure limit f with int(f * num_lineups) = 0
AllowedAtStart(sel) ==
    \A x \in DOMAIN sel : \A e \in DOMAIN exposure_limits :
        exposure_limits[e][1] = sel[x].id
            => (exposure_limits[e][2] * num_lineups) \div 100 >= 1

FirstSolveOptimal == i = 1 /\ status = "OPTIMAL" /\ Len(generated_lineups) = 1

(***************************************************************************)
(* C10 as stated: when the first solver call reports OPTIMAL, no selection *)
(* that meets the rules has a higher scaled total than the first lineup.   *)
(***************************************************************************)
C10_FirstIsMaximal ==
    FirstSolveOptimal =>
        \A sel \in Selections :
            MeetsRules(sel) => ScaledTotal(sel) <= ScaledTotal(generated_lineups[1])

(***************************************************************************)
(* C10 amended: for a pool with unique player ids, when the first solver   *)
(* call reports OPTIMAL, no selection that meets the rules and has no      *)
(* player whose exposure limit f gives int(f * num_lineups) = 0 has a      *)
(* higher scaled total than the first lineup.                              *)
(***************************************************************************)
C10_FirstIsMaximalAmongAllowed ==
    (FirstSolveOptimal /\ UniqueIds(players)) =>
        \A sel \in Selections :
            (MeetsRules(sel) /\ AllowedAtStart(sel))
                => ScaledTotal(sel) <= ScaledTotal(generated_lineups[1])

\* an optimal first lineup that beats another selection, with the cap binding
C10_Witness ==
    /\ FirstSolveOptimal
    /\ UniqueIds(players)
    /\ CapBinds
    /\ \E sel \in Selections :
          /\ MeetsRules(sel) /\ AllowedAtStart(sel)
          /\ ScaledTotal(sel) < ScaledTotal(generated_lineups[1])

(***************************************************************************)
(* C13: exposure exclusion is monotonic within a batch: once the lineups   *)
(* of the iterations before k hold a limited player floor(f * num_lineups) *)
(* times, no lineup of iteration k or later holds that player.             *)
(***************************************************************************)
HoldsId(lineup, pid) == \E x \in DOMAIN lineup : lineup[x].id = pid

C13_ExposureMonotonic ==
    \A e \in DOMAIN exposure_limits :
        \A k \in DOMAIN generated_lineups :
            Occurrences(SubSeq(generated_lineups, 1, k - 1), exposure_limits[e][1])
                    >= (exposure_limits[e][2] * num_lineups) \div 100
                => \A later \in k .. Len(generated_lineups) :
                       ~HoldsId(generated_lineups[later], exposure_limits[e][1])

\* a pool player reached its limit of one in the first lineup; two more followed
C13_Witness ==
    /\ Len(generated_lineups) >= 3
    /\ \E e \in DOMAIN exposure_limits :
          /\ (exposure_limits[e][2] * num_lineups) \div 100 = 1
          /\ HoldsId(generated_lineups[1], exposure_limits[e][1])

(***************************************************************************)
(* Repeated calls with a deterministic solver.  The solver is a function   *)
(* of the model: OPTIMAL with the optimal assignment of least code when    *)
(* the model is feasible, INFEASIBLE otherwise.  After solve has returned, *)
(* the caller calls solve(num_lineups) again on the same object, or        *)
(* constructs a new LineupOptimizer from the same inputs and calls solve   *)
(* on it.                                                                  *)
(***************************************************************************)
MaxReusePlayers == 3

RECURSIVE Code(_)
Code(a) == IF a = {} THEN 0 ELSE 2 ^ Max(a) + Code(a \ {Max(a)})

DetAnswer(m) ==
    LET optimal == OptimalSet(m) IN
    IF optimal = {}
    THEN [status |-> "INFEASIBLE", a |-> {}]
    ELSE [status |-> "OPTIMAL",
          a |-> CHOOSE a \in optimal : \A b \in optimal : Code(a) <= Code(b)]

\* faulty variant: the model is shared by all optimizer objects
FreshModel_Shared(previous) == previous

\* self.model = cp_model.CpModel() of an optimizer constructed after another
FreshModel(previous) == EmptyModel

InitCalls ==
    /\ Init
    /\ Len(players) <= MaxReusePlayers

DetIterationAccepts ==
    /\ pc = "loop" /\ i < num_lineups
    /\ ~ExposureRaises(player_vars, exposure_limits, player_usage_counts, num_lineups)
    /\ LET answer == DetAnswer(ModelToSolve)
           lineup == LineupOf(player_vars, players, answer.a)
       IN  /\ IsAccepted(answer.status)
           /\ generated_lineups' = Append(generated_lineups, lineup)
           /\ player_usage_counts' = CountUsage(player_usage_counts, lineup)
           /\ model' = AddConstraints(ModelToSolve,
                           <<DiversityConstraint(player_vars, lineup, rules, min_diversity)>>)
           /\ players' = PoolAfterSelection(players, lineup)
           /\ status' = answer.status
    /\ i' = i + 1
    /\ UNCHANGED <<api_vars, sim_vars, earlier_batches, rules, stacking_rules, exposure_limits,
                   min_diversity, num_lineups, player_vars, pc>>

DetIterationStops ==
    /\ pc = "loop" /\ i < num_lineups
    /\ ~ExposureRaises(player_vars, exposure_limits, player_usage_counts, num_lineups)
    /\ ~IsAccepted(DetAnswer(ModelToSolve).status)
    /\ status' = DetAnswer(ModelToSolve).status
    /\ model' = ModelToSolve
    /\ i' = i + 1
    /\ pc' = "returned"
    /\ UNCHANGED <<api_vars, sim_vars, earlier_batches, inputs, player_vars, generated_lineups,
                   player_usage_counts>>

\* solve(num_lineups) is called a second time on the same object
SolveAgain ==
    /\ pc = "returned" /\ earlier_batches = <<>>
    /\ earlier_batches' = <<[batch |-> generated_lineups, next |-> "same"]>>
    /\ pc' = "new"
    /\ UNCHANGED <<api_vars, sim_vars, inputs, model, player_vars, generated_lineups,
                   player_usage_counts, i, status>>

\* a new LineupOptimizer is constructed from the same inputs
ConstructAgain ==
    /\ pc = "returned" /\ earlier_batches = <<>>
    /\ earlier_batches' = <<[batch |-> generated_lineups, next |-> "fresh"]>>
    /\ model' = FreshModel(model)
    /\ player_vars' = <<>>
    /\ pc' = "new"
    /\ UNCHANGED <<api_vars, sim_vars, inputs, generated_lineups, player_usage_counts, i, status>>

\* the ids of the pool
PoolIds == {players[k].id : k \in DOMAIN players}

\* a new LineupOptimizer is constructed from the same inputs, except that
\* the exposure limits keyed by ids outside the pool are left out
ConstructWithout ==
    /\ pc = "returned" /\ earlier_batches = <<>>
    /\ \E e \in DOMAIN exposure_limits : exposure_limits[e][1] \notin PoolIds
    /\ earlier_batches' = <<[batch |-> generated_lineups, next |-> "without"]>>
    /\ exposure_limits' = LET InPool(e) == e[1] \in PoolIds
                          IN  SelectSeq(exposure_limits, InPool)
    /\ model' = FreshModel(model)
    /\ player_vars' = <<>>
    /\ pc' = "new"
    /\ UNCHANGED <<api_vars, sim_vars, players, rules, stacking_rules, min_diversity, num_lineups,
                   generated_lineups, player_usage_counts, i, status>>

NextCalls ==
    \/ SolveStart
    \/ IterationRaises
    \/ DetIterationAccepts
    \/ DetIterationStops
    \/ SolveReturns
    \/ SolveAgain
    \/ ConstructAgain
    \/ ConstructWithout

SpecCalls == InitCalls /\ [][NextCalls]_vars

\* the second call has returned; it was made on the same or on a new object
SecondReturned(kind) ==
    /\ pc = "returned"
    /\ Len(earlier_batches) = 1
    /\ earlier_batches[1].next = kind

(***************************************************************************)
(* C11: with a deterministic solver, two runs on newly constructed         *)
(* optimizers with identical inputs return identical batches.              *)
(***************************************************************************)
C11_FreshRunsAgree ==
    SecondReturned("fresh") => generated_lineups = earlier_batches[1].batch

C11_Witness ==
    /\ SecondReturned("fresh")
    /\ Len(generated_lineups) >= 2
    /\ Len(generated_lineups) < num_lineups

(***************************************************************************)
(* C12: a second solve(n) on the same optimizer returns the batch a newly  *)
(* constructed optimizer returns, which with a deterministic solver is the *)
(* batch of the first call.                                                *)
(***************************************************************************)
C12_SecondCallSameBatch ==
    SecondReturned("same") => generated_lineups = earlier_batches[1].batch

(***************************************************************************)
(* Malformed rules.  A rules dict without 'salary_cap' is a record without *)
(* that field: build_model creates the variables and then raises KeyError  *)
(* at self.rules['salary_cap'].  Nothing in __init__, build_model or solve *)
(* looks at the sign of roster_size or at the keys next to FLEX.           *)
(***************************************************************************)
MalformedRuleSets ==
    { [roster_size |-> 2, positions |-> << <<"QB", 1>> >>],
      [salary_cap |-> 16000, roster_size |-> 0, positions |-> <<>>],
      [salary_cap |-> 16000, roster_size |-> -1, positions |-> << <<"QB", 1>> >>],
      [salary_cap |-> 50000, roster_size |-> 2,
       positions |-> << <<"QB", 1>>, <<"FLEX", 1>> >>] }

InitRules ==
    /\ NoEndpoint
    /\ NoSimulator
    /\ earlier_batches = <<>>
    /\ players \in Pools
    /\ rules \in MalformedRuleSets
    /\ stacking_rules \in StackingChoices
    /\ exposure_limits \in ExposureChoices
    /\ min_diversity \in 0 .. MaxDiversity
    /\ num_lineups \in 1 .. MaxLineups
    /\ model = EmptyModel
    /\ player_vars = <<>>
    /\ generated_lineups = <<>>
    /\ player_usage_counts = <<>>
    /\ i = 0
    /\ status = "NONE"
    /\ pc = "new"

\* solve on rules without 'salary_cap': KeyError in build_model, after step 1
SolveStartRaises ==
    /\ pc = "new"
    /\ "salary_cap" \notin DOMAIN rules
    /\ player_vars' = build_model_vars(model, player_vars, players)
    /\ model' = [model EXCEPT !.vars = @ + Len(players)]
    /\ pc' = "raised"
    /\ UNCHANGED <<api_vars, sim_vars, earlier_batches, inputs, generated_lineups,
                   player_usage_counts, i, status>>

NextRules ==
    \/ SolveStartRaises
    \/ Next

SpecRules == InitRules /\ [][NextRules]_vars

\* missing salary_cap, roster_size <= 0, or FLEX with no eligible position listed
Malformed(rl) ==
    \/ "salary_cap" \notin DOMAIN rl
    \/ rl.roster_size <= 0
    \/ "FLEX" \in Keys(rl.positions) /\ Keys(rl.positions) \cap {"RB", "WR", "TE"} = {}

(***************************************************************************)
(* C17: with malformed rules the optimizer fails with InvalidRulesError    *)
(* before any variable or constraint is created and before any solver      *)
(* call.                                                                   *)
(***************************************************************************)
C17_InvalidRulesFailFast ==
    Malformed(rules) =>
        /\ pc \in {"new", "InvalidRulesError"}
        /\ model = EmptyModel
        /\ player_vars = <<>>
        /\ status = "NONE"

(***************************************************************************)
(* Simulator.  Scores are whole points; a float that numpy computes by a   *)
(* division is held as the exact fraction num/den, and 0/0 is nan.         *)
(***************************************************************************)
MaxIterations == 2
MaxBatch == 2
LongRun == 21

\* np.mean(scores > 150): the threshold
CashLine == 150

Frac(n, d) == [num |-> n, den |-> d]

\* a <= b for two fractions with positive denominators
Leq(a, b) == a.num * b.den <= b.num * a.den

\* x > f for a whole number x and a fraction f with a positive denominator
Exceeds(x, f) == x * f.den > f.num

\* the scores in ascending order
RECURSIVE Sorted(_)
Sorted(s) ==
    IF s = <<>> THEN <<>>
    ELSE LET k == CHOOSE k \in DOMAIN s : \A j \in DOMAIN s : s[k] <= s[j]
         IN  <<s[k]>> \o Sorted(SubSeq(s, 1, k - 1) \o SubSeq(s, k + 1, Len(s)))

\* np.mean(scores)
np_mean(scores) == Frac(SumSeq(scores), Len(scores))

\* faulty variant: the lower neighbour, without interpolation
np_percentile_Lower(scores, q) ==
    IF scores = <<>> THEN Frac(0, 0)
    ELSE Frac(100 * Sorted(scores)[(q * (Len(scores) - 1)) \div 100 + 1], 100)

\* np.percentile(scores, q): linear interpolation at q/100 * (n - 1)
np_percentile(scores, q) ==
    LET n == Len(scores)
        sorted == Sorted(scores)
        lo == (q * (n - 1)) \div 100
        rem == (q * (n - 1)) % 100
        hi == Min({lo + 1, n - 1})
    IN  IF n = 0 THEN Frac(0, 0)
        ELSE Frac(100 * sorted[lo + 1] + rem * (sorted[hi + 1] - sorted[lo + 1]), 100)

\* self.player_map = {p['id']: i for i, p in enumerate(players)}
RECURSIVE PlayerMapFrom(_, _, _)
PlayerMapFrom(d, ps, index) ==
    IF ps = <<>> THEN d
    ELSE PlayerMapFrom(DictSet(d, Head(ps).id, index), Tail(ps), index + 1)

PlayerMapOf(ps) == PlayerMapFrom(<<>>, ps, 0)

\* the entries of the lineup that player_map sends to column idx
EntriesAt(pm, lineup, idx) ==
    {x \in DOMAIN lineup : lineup[x].id \in Keys(pm) /\ Lookup(pm, lineup[x].id) = idx}

\* faulty variant: lineup_matrix[i, idx] += 1
lineup_matrix_entry_Counted(pm, lineup, idx) == Cardinality(EntriesAt(pm, lineup, idx))

\* lineup_matrix[i, idx] after the inner loop over the lineup's players
lineup_matrix_entry(pm, lineup, idx) == IF EntriesAt(pm, lineup, idx) # {} THEN 1 ELSE 0

\* lineup_matrix: one row per lineup, one column per player of the pool
lineup_matrix(pm, batch, num_players) ==
    [r \in DOMAIN batch |->
        [c \in 1 .. num_players |-> lineup_matrix_entry(pm, batch[r], c - 1)]]

\* one row of the matrix times one row of the outcomes
RECURSIVE Dot(_, _)
Dot(row, outcome) ==
    IF row = <<>> THEN 0
    ELSE Head(row) * Head(outcome) + Dot(Tail(row), Tail(outcome))

\* lineup_scores = lineup_matrix @ outcomes.T
MatMul(matrix, o) ==
    [r \in DOMAIN matrix |-> [t \in DOMAIN o |-> Dot(matrix[r], o[t])]]

\* np.percentile(lineup_scores, 50, axis=0)[t]
cash_line_proxy(scores, t) == np_percentile([r \in DOMAIN scores |-> scores[r][t]], 50)

\* faulty variant: the trials that beat the median of the batch
win_prob_Proxy(all_scores, r) ==
    Frac(Cardinality({t \in DOMAIN all_scores[r] :
                          Exceeds(all_scores[r][t], cash_line_proxy(all_scores, t))}),
         Len(all_scores[r]))

\* np.mean(scores > 150) for scores = lineup_scores[r]
win_prob(all_scores, r) ==
    Frac(Cardinality({t \in DOMAIN all_scores[r] : all_scores[r][t] > CashLine}),
         Len(all_scores[r]))

\* faulty variant: results are numbered from 1
AnalyzeLineup_OneBased(all_scores, index) ==
    [lineup_index |-> index + 1,
     avg_score |-> np_mean(all_scores[index + 1]),
     ceiling |-> np_percentile(all_scores[index + 1], 95),
     floor |-> np_percentile(all_scores[index + 1], 5),
     win_prob |-> win_prob(all_scores, index + 1)]

\* the body of the loop over enumerate(lineups), for i = index
AnalyzeLineup(all_scores, index) ==
    [lineup_index |-> index,
     avg_score |-> np_mean(all_scores[index + 1]),
     ceiling |-> np_percentile(all_scores[index + 1], 95),
     floor |-> np_percentile(all_scores[index + 1], 5),
     win_prob |-> win_prob(all_scores, index + 1)]

\* run_simulation(batch) once the outcomes o are drawn
run_simulation(ps, pm, batch, o) ==
    LET scores == MatMul(lineup_matrix(pm, batch, Len(ps)), o)
    IN  [lineup_scores |-> scores,
         results |-> [r \in DOMAIN batch |-> AnalyzeLineup(scores, r - 1)]]

(***************************************************************************)
(* Inputs of the simulator.                                                *)
(***************************************************************************)
\* pools: one player, two players, two records of one id
SimPools ==
    { <<Catalogue[1]>>, <<Catalogue[1], Catalogue[2]>>, <<Catalogue[2], Catalogue[3]>> }

\* lineups: a player listed twice, two records of one id, players outside the pool
SimLineups ==
    { <<Catalogue[1]>>, <<Catalogue[1], Catalogue[2]>>, <<Catalogue[2], Catalogue[2]>>,
      <<Catalogue[2], Catalogue[3]>>, <<Catalogue[1], Catalogue[4]>> }

SimBatches == UNION {[1 .. n -> SimLineups] : n \in 0 .. MaxBatch}

IterationChoices == (-1 .. MaxIterations) \cup {LongRun - 1, LongRun}

OutcomeValues == {0, 80, 160}

\* The draws of np.random.normal(means, std_devs, size=(n, num_players)).
\* Up to MaxIterations trials every matrix over OutcomeValues; for longer
\* runs the matrices in which one trial is the same non-zero value for all
\* players and the other trials are zero.
Outcomes(n, num_players) ==
    IF n <= MaxIterations
    THEN [1 .. n -> [1 .. num_players -> OutcomeValues]]
    ELSE {[t \in 1 .. n |-> [c \in 1 .. num_players |-> IF t = spike THEN v ELSE 0]] :
              spike \in 1 .. n, v \in OutcomeValues \ {0}}

\* No LineupOptimizer takes part.
NoOptimizer ==
    /\ players = <<>>
    /\ rules = [salary_cap |-> 0, roster_size |-> 0, positions |-> <<>>]
    /\ stacking_rules = <<>>
    /\ exposure_limits = <<>>
    /\ min_diversity = 0
    /\ num_lineups = 0
    /\ model = EmptyModel
    /\ player_vars = <<>>
    /\ generated_lineups = <<>>
    /\ player_usage_counts = <<>>
    /\ i = 0
    /\ status = "NONE"
    /\ pc = "none"
    /\ earlier_batches = <<>>

\* Simulator(players, num_iterations)
InitSim ==
    /\ NoEndpoint
    /\ NoOptimizer
    /\ sim_players \in SimPools
    /\ num_iterations \in IterationChoices
    /\ player_map = PlayerMapOf(sim_players)
    /\ lineups \in SimBatches
    /\ outcomes = <<>>
    /\ lineup_scores = <<>>
    /\ results = <<>>
    /\ sim_pc = "constructed"

\* faulty variant: the lineups are emptied while they are scored
ArgumentsAfterScoring_Consumed(ps, batch) ==
    [players |-> ps, lineups |-> [k \in DOMAIN batch |-> <<>>]]

\* self.players and the lineups after run_simulation: both are only read
ArgumentsAfterScoring(ps, batch) == [players |-> ps, lineups |-> batch]

\* run_simulation(lineups) returns
RunSimulation ==
    /\ sim_pc = "constructed"
    /\ num_iterations >= 0
    /\ \E o \in Outcomes(num_iterations, Len(sim_players)) :
          LET run == run_simulation(sim_players, player_map, lineups, o) IN
          /\ outcomes' = o
          /\ lineup_scores' = run.lineup_scores
          /\ results' = run.results
    /\ sim_players' = ArgumentsAfterScoring(sim_players, lineups).players
    /\ lineups' = ArgumentsAfterScoring(sim_players, lineups).lineups
    /\ sim_pc' = "returned"
    /\ UNCHANGED <<api_vars, opt_vars, num_iterations, player_map>>

\* run_simulation(lineups) leaves by an exception of numpy: ValueError of
\* np.random.normal for a negative size; for an empty axis (no trial, or no
\* lineup) np.percentile raises IndexError in some releases of numpy and
\* gives nan in the others
RunSimulationRaises ==
    /\ sim_pc = "constructed"
    /\ \/ /\ num_iterations < 0
          /\ sim_pc' = "ValueError"
          /\ outcomes' = outcomes
       \/ /\ num_iterations >= 0
          /\ num_iterations = 0 \/ lineups = <<>>
          /\ sim_pc' = "IndexError"
          /\ outcomes' \in Outcomes(num_iterations, Len(sim_players))
    /\ UNCHANGED <<api_vars, opt_vars, sim_players, num_iterations, player_map, lineups,
                   lineup_scores, results>>

NextSim ==
    \/ RunSimulation
    \/ RunSimulationRaises

SpecSim == InitSim /\ [][NextSim]_vars

RunReturned == sim_pc = "returned"

\* the sum of trial t's outcomes over a set of columns
RECURSIVE SumColumns(_, _)
SumColumns(columns, t) ==
    IF columns = {} THEN 0
    ELSE outcomes[t][Max(columns)] + SumColumns(columns \ {Max(columns)}, t)

\* the score of a lineup in trial t, read off the ids the pool knows
ScoreById(lineup, t) ==
    SumColumns({Lookup(player_map, lineup[x].id) + 1 :
                    x \in {y \in DOMAIN lineup : lineup[y].id \in Keys(player_map)}}, t)

\* the score of a lineup in trial t, read off the pool's records it holds
ScoreByRecord(lineup, t) ==
    SumColumns({c \in DOMAIN sim_players : sim_players[c] \in Range(lineup)}, t)

(***************************************************************************)
(* C14: run_simulation returns one result per input lineup, in input       *)
(* order: the results are as many as the lineups, the i-th result has      *)
(* lineup_index = i (from 0) and its average and win probability are those *)
(* of the trial scores of the i-th lineup alone.                           *)
(***************************************************************************)
C14_OneResultPerLineup ==
    RunReturned =>
        /\ Len(results) = Len(lineups)
        /\ \A k \in DOMAIN results :
              /\ results[k].lineup_index = k - 1
              /\ results[k].avg_score =
                     Frac(SumSeq([t \in DOMAIN outcomes |-> ScoreById(lineups[k], t)]),
                          num_iterations)
              /\ results[k].win_prob =
                     Frac(Cardinality({t \in DOMAIN outcomes :
                                           ScoreById(lineups[k], t) > CashLine}),
                          num_iterations)

C14_Witness ==
    /\ RunReturned
    /\ Len(lineups) = 2
    /\ results[1].avg_score.num > results[2].avg_score.num
    /\ results[2].avg_score.num > 0

(***************************************************************************)
(* C15: when a lineup references a player id that is not in the pool, the  *)
(* call fails with UnknownPlayerError and returns no results.              *)
(***************************************************************************)
C15_UnknownPlayerFails ==
    (/\ sim_pc # "constructed"
     /\ \E k \in DOMAIN lineups :
           \E x \in DOMAIN lineups[k] : lineups[k][x].id \notin Keys(player_map))
        => /\ sim_pc = "UnknownPlayerError"
           /\ results = <<>>

(***************************************************************************)
(* C16: with num_iterations zero or negative the call fails with           *)
(* InvalidIterationCountError before any outcome is generated and returns  *)
(* no results.                                                             *)
(***************************************************************************)
C16_InvalidIterationCountFails ==
    (sim_pc # "constructed" /\ num_iterations <= 0)
        => /\ sim_pc = "InvalidIterationCountError"
           /\ results = <<>>

Ordered(r) == Leq(r.floor, r.avg_score) /\ Leq(r.avg_score, r.ceiling)

Metrics(r) == <<r.avg_score, r.ceiling, r.floor, r.win_prob>>

(***************************************************************************)
(* C19: win_prob is the fraction of trials whose score exceeds the one     *)
(* threshold of the call, and for a fixed outcome matrix the metrics of a  *)
(* lineup are those of a call with that lineup alone.                      *)
(***************************************************************************)
C19_BatchIndependent ==
    RunReturned =>
        \A k \in DOMAIN results :
            /\ results[k].win_prob =
                   Frac(Cardinality({t \in DOMAIN outcomes : lineup_scores[k][t] > CashLine}),
                        num_iterations)
            /\ Metrics(results[k]) =
                   Metrics(run_simulation(sim_players, player_map,
                                          <<lineups[k]>>, outcomes).results[1])

C19_Witness ==
    /\ RunReturned
    /\ Len(lineups) = 2
    /\ results[1].win_prob.num > 0
    /\ results[2].win_prob.num = 0
    /\ results[2].avg_score.num > 0

MeetsBase(sel) ==
    /\ TotalSalary(sel) <= rules.salary_cap
    /\ Len(sel) = rules.roster_size
    /\ \A r \in DOMAIN rules.positions :
          rules.positions[r][1] # "FLEX" =>
              CountAt(sel, {rules.positions[r][1]}) >= rules.positions[r][2]
    /\ "FLEX" \in Keys(rules.positions) =>
          CountAt(sel, {"RB", "WR", "TE"})
              = Get0(rules.positions, "RB") + Get0(rules.positions, "WR")
                + Get0(rules.positions, "TE") + Get0(rules.positions, "FLEX")

BaseInfeasible == \A sel \in Selections : ~MeetsBase(sel)

\* every exposure limit that bans from the first iteration on names a pool player
BansKnownIds ==
    \A e \in DOMAIN exposure_limits :
        (exposure_limits[e][2] * num_lineups) \div 100 <= 0
            => \E k \in DOMAIN players : players[k].id = exposure_limits[e][1]

(***************************************************************************)
(* C23: when no selection of the pool satisfies the base constraints,      *)
(* solve(n) returns an empty list without raising, for every n >= 1.       *)
(***************************************************************************)
C23_InfeasibleReturnsEmpty ==
    BaseInfeasible => (pc # "raised" /\ generated_lineups = <<>>)

\* C23, amended: the same for a pool with unique ids and exposure limits
\* whose bans from the first iteration on name pool players
C23_InfeasibleReturnsEmptyKnownIds ==
    (BaseInfeasible /\ UniqueIds(players) /\ BansKnownIds)
        => (pc # "raised" /\ generated_lineups = <<>>)

C23_Witness ==
    /\ BaseInfeasible
    /\ UniqueIds(players)
    /\ BansKnownIds
    /\ exposure_limits # <<>>
    /\ num_lineups >= 2
    /\ CountAt(players, {"QB"}) = 0
    /\ pc = "returned"
    /\ status = "INFEASIBLE"
    /\ generated_lineups = <<>>

(***************************************************************************)
(* C24: at the start of every iteration of the loop, for every player of   *)
(* the pool, the usage count equals the number of lineups generated so far *)
(* in this batch that contain the player.                                  *)
(***************************************************************************)
C24_UsageCountsMatch ==
    pc = "loop" =>
        \A k \in DOMAIN players :
            UsageOf(player_usage_counts, players[k].id)
                = Occurrences(generated_lineups, players[k].id)

\* C24, amended: the same for a pool with unique player ids
C24_UsageCountsMatchUniqueIds ==
    (pc = "loop" /\ UniqueIds(players)) =>
        \A k \in DOMAIN players :
            UsageOf(player_usage_counts, players[k].id)
                = Occurrences(generated_lineups, players[k].id)

C24_Witness ==
    /\ pc = "loop"
    /\ UniqueIds(players)
    /\ Len(generated_lineups) = 2
    /\ \E k \in DOMAIN players : player_usage_counts[players[k].id] = 2
    /\ \E k \in DOMAIN players : player_usage_counts[players[k].id] = 1
    /\ \E k \in DOMAIN players : player_usage_counts[players[k].id] = 0

(***************************************************************************)
(* C25: when every solver call reports OPTIMAL, the scaled totals (sum of  *)
(* int(points * 100)) of the lineups of a batch do not increase in the     *)
(* order returned.  As stated, for the first two calls of a batch.         *)
(***************************************************************************)
LastTotal(batch) == ScaledTotal(batch[Len(batch)])

C25_FirstTwoStep ==
    (/\ i = 1
     /\ Len(generated_lineups) = 1
     /\ Len(generated_lineups') = 2
     /\ status = "OPTIMAL"
     /\ status' = "OPTIMAL")
        => LastTotal(generated_lineups') <= LastTotal(generated_lineups)

C25_TotalsDoNotIncrease == [][C25_FirstTwoStep]_vars

\* C25, amended: for a pool with unique player ids, a lineup found by an
\* OPTIMAL call that follows an OPTIMAL call has a scaled total no higher
\* than the lineup before it
C25_UniqueIdsStep ==
    (/\ UniqueIds(players)
     /\ Len(generated_lineups) >= 1
     /\ Len(generated_lineups') = Len(generated_lineups) + 1
     /\ status = "OPTIMAL"
     /\ status' = "OPTIMAL")
        => LastTotal(generated_lineups') <= LastTotal(generated_lineups)

C25_TotalsDoNotIncreaseUniqueIds == [][C25_UniqueIdsStep]_vars

C25_Witness ==
    /\ UniqueIds(players)
    /\ Len(generated_lineups) = 3
    /\ status = "OPTIMAL"
    /\ ScaledTotal(generated_lineups[3]) < ScaledTotal(generated_lineups[2])
    /\ ScaledTotal(generated_lineups[2]) < ScaledTotal(generated_lineups[1])

(***************************************************************************)
(* Rosters of one player, so that min_diversity can exceed roster_size.    *)
(***************************************************************************)
SmallRosterRules ==
    { [salary_cap |-> 16000, roster_size |-> 1, positions |-> << <<"QB", 1>> >>],
      [salary_cap |-> 8000, roster_size |-> 1, positions |-> <<>>] }

InitSmallRoster ==
    /\ NoEndpoint
    /\ NoSimulator
    /\ earlier_batches = <<>>
    /\ players \in Pools
    /\ rules \in SmallRosterRules
    /\ stacking_rules \in StackingChoices
    /\ exposure_limits \in ExposureChoices
    /\ min_diversity \in 0 .. MaxDiversity
    /\ num_lineups \in 1 .. MaxLineups
    /\ model = EmptyModel
    /\ player_vars = <<>>
    /\ generated_lineups = <<>>
    /\ player_usage_counts = <<>>
    /\ i = 0
    /\ status = "NONE"
    /\ pc = "new"

SpecSmallRoster == InitSmallRoster /\ [][Next]_vars

(***************************************************************************)
(* C26: when min_diversity is greater than roster_size, solve(n) returns   *)
(* at most one lineup for every n: the solver call after the first lineup  *)
(* is not accepted and the loop stops there.                               *)
(***************************************************************************)
C26_AtMostOneLineup ==
    min_diversity > rules.roster_size =>
        /\ Len(generated_lineups) <= 1
        /\ (Len(generated_lineups) = 1 /\ i >= 2) =>
               (pc = "returned" /\ i = 2 /\ status \in {"INFEASIBLE", "UNKNOWN"})

C26_Witness ==
    /\ min_diversity > rules.roster_size
    /\ num_lineups = 3
    /\ Len(players) >= 3
    /\ Len(ReturnedLineups) = 1
    /\ status = "INFEASIBLE"

(***************************************************************************)
(* C27: stacking adds a constraint only for a primary-position player that *)
(* has an eligible teammate in the pool (same team, partner position,      *)
(* other id): the enforced constraints of the model are as many as the     *)
(* primaries with a teammate, each is enforced by the variable of one of   *)
(* them, and none by the variable of a primary without a teammate.         *)
(***************************************************************************)
HasTeammate(p, partner_positions) ==
    \E y \in DOMAIN players :
        /\ players[y].team = p.team
        /\ players[y].position \in Range(partner_positions)
        /\ players[y].id # p.id

\* the pairs of a stacking rule and a pool player at its primary position
Primaries ==
    {<<r, k>> \in (DOMAIN stacking_rules) \X (DOMAIN players) :
        players[k].position = stacking_rules[r][1]}

Enforced == {c \in DOMAIN model.constraints : model.constraints[c].enf # 0}

UnknownBan ==
    \E e \in DOMAIN exposure_limits :
        /\ exposure_limits[e][1] \notin PoolIds
        /\ (exposure_limits[e][2] * num_lineups) \div 100 <= 0

C28_UnknownIdLimit ==
    /\ SecondReturned("without") => generated_lineups = earlier_batches[1].batch
    /\ (UnknownBan /\ earlier_batches = <<>>) =>
           /\ pc \in {"new", "loop", "raised"}
           /\ i = 0
           /\ status = "NONE"
           /\ generated_lineups = <<>>

\* the batch without the limit has as many lineups as were asked for, and more than one
C28_Witness ==
    /\ SecondReturned("without")
    /\ exposure_limits = <<>>
    /\ Len(generated_lineups) = num_lineups
    /\ num_lineups >= 2

(***************************************************************************)
(* solve followed by run_simulation: the caller constructs a Simulator on  *)
(* the pool it gave to the optimizer and scores the batch solve returned.  *)
(***************************************************************************)
PipelinePools ==
    { <<Catalogue[1], Catalogue[2]>>,
      <<Catalogue[1], Catalogue[2], Catalogue[4]>>,
      <<Catalogue[2], Catalogue[3], Catalogue[5]>> }

InitPipeline ==
    /\ NoEndpoint
    /\ NoSimulator
    /\ earlier_batches = <<>>
    /\ players \in PipelinePools
    /\ rules \in RuleSets
    /\ stacking_rules \in StackingChoices
    /\ exposure_limits \in ExposureChoices
    /\ min_diversity \in 0 .. MaxDiversity
    /\ num_lineups \in 1 .. MaxLineups
    /\ model = EmptyModel
    /\ player_vars = <<>>
    /\ generated_lineups = <<>>
    /\ player_usage_counts = <<>>
    /\ i = 0
    /\ status = "NONE"
    /\ pc = "new"

\* Simulator(players, num_iterations=1), and the batch as the caller holds it
ConstructSimulator ==
    /\ pc = "returned"
    /\ sim_pc = "none"
    /\ sim_players' = players
    /\ num_iterations' = 1
    /\ player_map' = PlayerMapOf(players)
    /\ lineups' = generated_lineups
    /\ sim_pc' = "constructed"
    /\ UNCHANGED <<api_vars, opt_vars, outcomes, lineup_scores, results>>

NextPipeline ==
    \/ Next
    \/ ConstructSimulator
    \/ NextSim

SpecPipeline == InitPipeline /\ [][NextPipeline]_vars

(***************************************************************************)
(* C22: solve and run_simulation leave their inputs unchanged: no step of  *)
(* solve changes the player records, rules, stacking rules, exposure       *)
(* limits or min_diversity, and no step of run_simulation changes the pool *)
(* or the lineups it was given.                                            *)
(***************************************************************************)
C22_Step ==
    /\ players' = players
    /\ rules' = rules
    /\ stacking_rules' = stacking_rules
    /\ exposure_limits' = exposure_limits
    /\ min_diversity' = min_diversity
    /\ sim_pc = "constructed" => (sim_players' = sim_players /\ lineups' = lineups)

C22_InputsUnchanged == [][C22_Step]_vars

\* a batch of two lineups was generated and then scored
C22_Witness ==
    /\ pc = "returned"
    /\ sim_pc = "returned"
    /\ Len(generated_lineups) = 2
    /\ Len(results) = 2
    /\ lineups = generated_lineups
    /\ sim_players = players

(***************************************************************************)
(* The /auto endpoint: auto_optimize fetches the projections, runs a       *)
(* LineupOptimizer on them under the default NFL rules and answers with    *)
(* the lineups and their totals.  Every exception raised inside its try    *)
(* block, the HTTPException for missing projections included, reaches      *)
(* `except Exception` and is answered with status 500.                     *)
(***************************************************************************)
\* the players the projections service knows; the last two are kickers, a
\* position the rules do not list, and the second kicker has the id of the
\* fourth wide receiver
AutoCatalogue ==
    << Player(101, "QB", "BUF", 7000, 22000),
       Player(102, "QB", "KC", 6500, 20000),
       Player(103, "RB", "SF", 7500, 21000),
       Player(104, "RB", "BUF", 6000, 15000),
       Player(105, "RB", "KC", 5000, 12000),
       Player(106, "WR", "BUF", 7000, 20000),
       Player(107, "WR", "MIA", 6500, 18000),
       Player(108, "WR", "KC", 5500, 14000),
       Player(109, "WR", "SF", 4500, 11000),
       Player(110, "TE", "NE", 4000, 10000),
       Player(111, "DST", "SF", 3000, 8000),
       Player(112, "K", "BUF", 3000, 30000),
       Player(109, "K", "SF", 3000, 9000) >>

\* what generate_projections returns: nothing, too few players for a
\* roster, the twelve players, or the twelve with the repeated id
AutoPools ==
    { <<>>,
      SubSeq(AutoCatalogue, 1, 8),
      SubSeq(AutoCatalogue, 1, 12),
      SubSeq(AutoCatalogue, 1, 11) \o <<AutoCatalogue[13]>> }

\* the query parameters salary_cap (default 50000) and num_lineups (default 1)
AutoSalaryCaps == {50000, 49000}

AutoLineupCounts == {1, 2}

\* ProjectionsService(), generate_projections(season, week): a list, or an exception
ServiceResults ==
    {[raised |-> TRUE, rows |-> <<>>]} \cup {[raised |-> FALSE, rows |-> ps] : ps \in AutoPools}

\* Default NFL Rules (DraftKings Classic approx)
AutoRules(cap) ==
    [salary_cap |-> cap, roster_size |-> 9,
     positions |-> << <<"QB", 1>>, <<"RB", 2>>, <<"WR", 3>>, <<"TE", 1>>,
                      <<"DST", 1>>, <<"FLEX", 1>> >>]

\* a request: POST /auto?season=..&week=..&salary_cap=..&num_lineups=..
InitAuto ==
    /\ NoSimulator
    /\ projections \in ServiceResults
    /\ salary_cap \in AutoSalaryCaps
    /\ num_lineups \in AutoLineupCounts
    /\ response = <<>>
    /\ http_status = 0
    /\ api_pc = "received"
    /\ players = <<>>
    /\ rules = [salary_cap |-> 0, roster_size |-> 0, positions |-> <<>>]
    /\ stacking_rules = <<>>
    /\ exposure_limits = <<>>
    /\ min_diversity = 0
    /\ model = EmptyModel
    /\ player_vars = <<>>
    /\ generated_lineups = <<>>
    /\ player_usage_counts = <<>>
    /\ i = 0
    /\ status = "NONE"
    /\ pc = "none"
    /\ earlier_batches = <<>>

\* the service raised, or `if not projections: raise HTTPException(404)`:
\* both are caught by `except Exception` and raised again with status 500
AutoFails ==
    /\ api_pc = "received"
    /\ projections.raised \/ projections.rows = <<>>
    /\ http_status' = 500
    /\ api_pc' = "responded"
    /\ UNCHANGED <<opt_vars, sim_vars, projections, salary_cap, response>>

\* players_data, rules and LineupOptimizer(players_data, rules)
AutoPrepare ==
    /\ api_pc = "received"
    /\ ~projections.raised
    /\ projections.rows # <<>>
    /\ players' = projections.rows
    /\ rules' = AutoRules(salary_cap)
    /\ stacking_rules' = <<>>
    /\ exposure_limits' = <<>>
    /\ min_diversity' = 0
    /\ model' = EmptyModel
    /\ player_vars' = <<>>
    /\ pc' = "new"
    /\ api_pc' = "optimizing"
    /\ UNCHANGED <<sim_vars, projections, salary_cap, response, http_status, num_lineups,
                   generated_lineups, player_usage_counts, i, status, earlier_batches>>

\* LineupResponse(players=lineup, total_salary=.., projected_points=..)
LineupResponse(lineup) ==
    [players |-> lineup,
     total_salary |-> SumSeq([k \in DOMAIN lineup |-> lineup[k].salary]),
     projected_points |-> SumSeq([k \in DOMAIN lineup |-> lineup[k].points])]

\* solve returned: the response is built and returned
AutoResponds ==
    /\ api_pc = "optimizing"
    /\ pc = "returned"
    /\ response' = [k \in DOMAIN generated_lineups |-> LineupResponse(generated_lineups[k])]
    /\ http_status' = 200
    /\ api_pc' = "responded"
    /\ UNCHANGED <<opt_vars, sim_vars, projections, salary_cap>>

\* the optimizer of the endpoint has no exposure limits: its solve never raises
NextAuto ==
    \/ AutoFails
    \/ AutoPrepare
    \/ SolveStart
    \/ IterationAccepts
    \/ IterationStops
    \/ SolveReturns
    \/ AutoResponds

SpecAuto == InitAuto /\ [][NextAuto]_vars

(***************************************************************************)
(* C29: when the rules contain FLEX and roster_size is the sum of all      *)
(* position requirements, FLEX included, every returned lineup has exactly *)
(* the required count at each listed position outside RB, WR and TE, holds *)
(* no player of a position the rules do not list, and its surplus of RB,   *)
(* WR and TE over their minimums totals exactly the FLEX count.            *)
(***************************************************************************)
RosterIsSumOfRequirements ==
    /\ "FLEX" \in Keys(rules.positions)
    /\ rules.roster_size = SumSeq([k \in DOMAIN rules.positions |-> rules.positions[k][2]])

Surplus(lineup, pos) == CountAt(lineup, {pos}) - Get0(rules.positions, pos)

ExactRoster(lineup) ==
    /\ \A r \in DOMAIN rules.positions :
          rules.positions[r][1] \notin {"RB", "WR", "TE", "FLEX"} =>
              CountAt(lineup, {rules.positions[r][1]}) = rules.positions[r][2]
    /\ \A x \in DOMAIN lineup : lineup[x].position \in Keys(rules.positions)
    /\ \A pos \in {"RB", "WR", "TE"} : Surplus(lineup, pos) >= 0
    /\ Surplus(lineup, "RB") + Surplus(lineup, "WR") + Surplus(lineup, "TE")
           = Get0(rules.positions, "FLEX")

C30_NoProjectionsIs404 ==
    api_pc = "responded" =>
        /\ (~projections.raised /\ projections.rows = <<>>)
               => (http_status = 404 /\ pc = "none")
        /\ projections.raised => http_status = 500

====
